---- MODULE Spec2Model ----
(***************************************************************************)
(* Model of the Camava provider (camply/providers/camava/camava.py):       *)
(* the facility catalog cache, the GET-then-POST availability session,    *)
(* and the extraction of campsite records from the returned markup.       *)
(*                                                                         *)
(* Text is modelled as TLA+ strings read character by character; the       *)
(* regular expressions of the source are written out as matchers.          *)
(* Dates are whole days (integers); prices are integer cents; coordinates  *)
(* are integer thousandths.                                                *)
(***************************************************************************)
EXTENDS Integers, Sequences, FiniteSets, TLC

VARIABLES
    campground_cache,   \* self._campground_cache: [is_none, list]
    requests,           \* network requests issued by the most recent call
    outcome,            \* what the most recent call was given and produced
    html,               \* input of _parse_availability_html: a sequence of divs
    campsites,          \* its result
    div,                \* input of _extract_site_info
    site_info,          \* its result: <<>> (None) or <<record>>
    site_locals,        \* the local variables it computed
    pc,                 \* concurrent callers: position of each thread
    local,              \* concurrent callers: each thread's local variables
    observed,           \* concurrent callers: cache values read so far
    search,             \* the search object: its fields and its search days
    position,           \* get_all_campsites: where its loops stand
    all_campsites,      \* get_all_campsites: the records gathered so far
    calls               \* the get_campsites calls it has made, in order

searchVars == <<search, position, all_campsites, calls>>

vars == <<campground_cache, requests, outcome, html, campsites, div,
          site_info, site_locals, pc, local, observed, searchVars>>

(***************************************************************************)
(* Bounds of the model.                                                    *)
(***************************************************************************)
MaxDivs == 3        \* divs with a data-id in one response
MaxOptions == 1     \* options of the parent_idno select
MaxDay == 1         \* dates are days 0..MaxDay
NThreads == 2       \* concurrent callers
MaxCampgrounds == 2 \* campground ids given to one search

(***************************************************************************)
(* Characters and strings.                                                 *)
(***************************************************************************)
UpperLetters == "ABCDEFGHIJKLMNOPQRSTUVWXYZ"
LowerLetters == "abcdefghijklmnopqrstuvwxyz"
Digits == "0123456789"

Char(s, i) == SubSeq(s, i, i)

UpperSet == { Char(UpperLetters, i) : i \in 1..Len(UpperLetters) }
LowerSet == { Char(LowerLetters, i) : i \in 1..Len(LowerLetters) }
DigitSet == { Char(Digits, i) : i \in 1..Len(Digits) }

\* str.lower() of one upper-case letter
LowerMap ==
    [c \in UpperSet |->
        Char(LowerLetters, CHOOSE i \in 1..Len(UpperLetters) : Char(UpperLetters, i) = c)]
\* the value of one decimal digit
DigitMap ==
    [c \in DigitSet |-> (CHOOSE i \in 1..Len(Digits) : Char(Digits, i) = c) - 1]

IsDigit(c) == c \in DigitSet
IsAlpha(c) == c \in UpperSet \/ c \in LowerSet
IsSpace(c) == c \in {" ", "\t", "\n", "\r"}
DigitVal(c) == DigitMap[c]

\* str.lower() of one character
LowerChar(c) == IF c \in UpperSet THEN LowerMap[c] ELSE c

\* str.lower()
RECURSIVE Lower(_)
Lower(s) ==
    IF Len(s) = 0 THEN ""
    ELSE LowerChar(Char(s, 1)) \o Lower(SubSeq(s, 2, Len(s)))

\* the text s has the literal lit at position i
StartsAt(s, i, lit) ==
    /\ i >= 1
    /\ i + Len(lit) - 1 <= Len(s)
    /\ SubSeq(s, i, i + Len(lit) - 1) = lit

\* `sub in s`
Contains(s, sub) == \E i \in 1..Len(s) : StartsAt(s, i, sub)

\* first index >= i that holds no whitespace (\s* and \s+ are greedy)
RECURSIVE SkipSpaces(_, _)
SkipSpaces(s, i) ==
    IF i <= Len(s) /\ IsSpace(Char(s, i)) THEN SkipSpaces(s, i + 1) ELSE i

\* first index >= i that holds no digit (\d+ is greedy)
RECURSIVE SkipDigits(_, _)
SkipDigits(s, i) ==
    IF i <= Len(s) /\ IsDigit(Char(s, i)) THEN SkipDigits(s, i + 1) ELSE i

\* str.strip()
RECURSIVE StripLeft(_)
StripLeft(s) ==
    IF Len(s) > 0 /\ IsSpace(Char(s, 1)) THEN StripLeft(SubSeq(s, 2, Len(s))) ELSE s

RECURSIVE StripRight(_)
StripRight(s) ==
    IF Len(s) > 0 /\ IsSpace(Char(s, Len(s)))
    THEN StripRight(SubSeq(s, 1, Len(s) - 1)) ELSE s

Strip(s) == StripRight(StripLeft(s))

\* value of a string of decimal digits
RECURSIVE DigitsValue(_)
DigitsValue(s) ==
    IF Len(s) = 0 THEN 0
    ELSE 10 * DigitsValue(SubSeq(s, 1, Len(s) - 1)) + DigitVal(Char(s, Len(s)))

AllDigits(s) == Len(s) > 0 /\ SkipDigits(s, 1) = Len(s) + 1

\* int(s): surrounding whitespace and one sign are accepted; anything else
\* raises ValueError
ParseInt(s) ==
    LET t == Strip(s)
        signed == Len(t) > 0 /\ Char(t, 1) \in {"+", "-"}
        body == IF signed THEN SubSeq(t, 2, Len(t)) ELSE t
    IN  IF AllDigits(body)
        THEN [ok |-> TRUE,
              value |-> IF signed /\ Char(t, 1) = "-"
                        THEN 0 - DigitsValue(body) ELSE DigitsValue(body)]
        ELSE [ok |-> FALSE, value |-> 0]

\* digits of a fraction, as thousandths ("5" is 500, "12" is 120)
FracMilli(f) ==
    IF Len(f) = 0 THEN 0
    ELSE IF Len(f) = 1 THEN 100 * DigitsValue(f)
    ELSE IF Len(f) = 2 THEN 10 * DigitsValue(f)
    ELSE DigitsValue(SubSeq(f, 1, 3))

\* float(s), in thousandths: [sign] digits [. digits]; anything else raises
\* ValueError
ParseFloat(s) ==
    LET t == Strip(s)
        signed == Len(t) > 0 /\ Char(t, 1) \in {"+", "-"}
        body == IF signed THEN SubSeq(t, 2, Len(t)) ELSE t
        p == SkipDigits(body, 1)
        whole == SubSeq(body, 1, p - 1)
        dotted == p <= Len(body) /\ Char(body, p) = "."
        frac == IF dotted THEN SubSeq(body, p + 1, Len(body)) ELSE ""
        wellformed ==
            /\ IF dotted THEN SkipDigits(body, p + 1) = Len(body) + 1
                         ELSE p = Len(body) + 1
            /\ Len(whole) + Len(frac) > 0
        magnitude == 1000 * DigitsValue(whole) + FracMilli(frac)
    IN  IF wellformed
        THEN [ok |-> TRUE,
              value |-> IF signed /\ Char(t, 1) = "-" THEN 0 - magnitude ELSE magnitude]
        ELSE [ok |-> FALSE, value |-> 0]

\* a failed re.search (None)
NoMatch == [matched |-> FALSE, group |-> ""]

(***************************************************************************)
(* The regular expressions of _extract_site_info.                          *)
(***************************************************************************)
\* r'Site\s+(\d+[A-Z]?)' with re.IGNORECASE, tried at position i
SiteMatchAt(text, i) ==
    LET k == SkipSpaces(text, i + 4)
        m == SkipDigits(text, k)
        e == IF m <= Len(text) /\ IsAlpha(Char(text, m)) THEN m + 1 ELSE m
    IN  IF /\ i + 3 <= Len(text)
           /\ LowerChar(Char(text, i)) = "s"
           /\ LowerChar(Char(text, i + 1)) = "i"
           /\ LowerChar(Char(text, i + 2)) = "t"
           /\ LowerChar(Char(text, i + 3)) = "e"
           /\ k > i + 4
           /\ m > k
        THEN [matched |-> TRUE, group |-> SubSeq(text, k, e - 1)]
        ELSE NoMatch

\* r'Use Fee:\s*\$(\d+(?:\.\d{2})?)', tried at position i
PriceMatchAt(text, i) ==
    LET k == SkipSpaces(text, i + 8)
        m == SkipDigits(text, k + 1)
        cents == /\ m + 2 <= Len(text)
                 /\ Char(text, m) = "."
                 /\ IsDigit(Char(text, m + 1))
                 /\ IsDigit(Char(text, m + 2))
        e == IF cents THEN m + 3 ELSE m
    IN  IF /\ StartsAt(text, i, "Use Fee:")
           /\ k <= Len(text)
           /\ Char(text, k) = "$"
           /\ m > k + 1
        THEN [matched |-> TRUE, group |-> SubSeq(text, k + 1, e - 1)]
        ELSE NoMatch

\* r'Persons:\s*(\d+)', tried at position i
OccupancyMatchAt(text, i) ==
    LET k == SkipSpaces(text, i + 8)
        m == SkipDigits(text, k)
    IN  IF StartsAt(text, i, "Persons:") /\ m > k
        THEN [matched |-> TRUE, group |-> SubSeq(text, k, m - 1)]
        ELSE NoMatch

\* re.search returns the leftmost match: the first position >= i that matches,
\* 0 when there is none
RECURSIVE SiteFirst(_, _)
SiteFirst(text, i) ==
    IF i > Len(text) THEN 0
    ELSE IF SiteMatchAt(text, i).matched THEN i
    ELSE SiteFirst(text, i + 1)

RECURSIVE PriceFirst(_, _)
PriceFirst(text, i) ==
    IF i > Len(text) THEN 0
    ELSE IF PriceMatchAt(text, i).matched THEN i
    ELSE PriceFirst(text, i + 1)

RECURSIVE OccupancyFirst(_, _)
OccupancyFirst(text, i) ==
    IF i > Len(text) THEN 0
    ELSE IF OccupancyMatchAt(text, i).matched THEN i
    ELSE OccupancyFirst(text, i + 1)

site_match(text) ==
    LET i == SiteFirst(text, 1)
    IN  IF i = 0 THEN NoMatch ELSE SiteMatchAt(text, i)

price_match(text) ==
    LET i == PriceFirst(text, 1)
    IN  IF i = 0 THEN NoMatch ELSE PriceMatchAt(text, i)

occupancy_match(text) ==
    LET i == OccupancyFirst(text, 1)
    IN  IF i = 0 THEN NoMatch ELSE OccupancyMatchAt(text, i)

(***************************************************************************)
(* Provider properties (variations.py) and the canonical record.          *)
(***************************************************************************)
base_url == "https://santabarbara.camava.com"
reservation_path == "/reservation/camping/index.asp"
park_name == "Santa Barbara County Parks"

\* div.get(name): <<>> is None, <<v>> the attribute's value
Get(d, name) == IF name \in DOMAIN d.attrs THEN <<d.attrs[name]>> ELSE <<>>

\* Python truthiness of an attribute value: None and "" are false
Truthy(v) == Len(v) > 0 /\ Len(v[1]) > 0

\* site name/number, with the raw identifier as the fallback label
SiteName(text, site_id) ==
    IF site_match(text).matched
    THEN "Site " \o site_match(text).group
    ELSE "Site " \o site_id

\* float(price_match.group(1)), in cents
PriceOf(group) ==
    LET p == SkipDigits(group, 1)
    IN  100 * DigitsValue(SubSeq(group, 1, p - 1))
        + (IF p <= Len(group) THEN DigitsValue(SubSeq(group, p + 1, Len(group))) ELSE 0)

Price(text) ==
    IF price_match(text).matched THEN PriceOf(price_match(text).group) ELSE 0

Occupancy(text) ==
    IF occupancy_match(text).matched
    THEN DigitsValue(occupancy_match(text).group) ELSE 1

\* mutant: the tent test placed before the RV test
SiteType_TentFirst(text) ==
    LET lowered == Lower(text)
    IN  IF Contains(lowered, "tent") THEN "Tent"
        ELSE IF Contains(text, "RV") \/ Contains(lowered, "rv") THEN "RV"
        ELSE IF Contains(lowered, "group") THEN "Group"
        ELSE "Standard"

SiteType(text) ==
    LET lowered == Lower(text)
    IN  IF Contains(text, "RV") \/ Contains(lowered, "rv") THEN "RV"
        ELSE IF Contains(lowered, "tent") THEN "Tent"
        ELSE IF Contains(lowered, "group") THEN "Group"
        ELSE "Standard"

\* CampsiteLocation or None (<<>>); a failing float() is swallowed
Location(lat, lng) ==
    IF Truthy(lat) /\ Truthy(lng)
    THEN IF ParseFloat(lat[1]).ok /\ ParseFloat(lng[1]).ok
         THEN <<[latitude |-> ParseFloat(lat[1]).value,
                 longitude |-> ParseFloat(lng[1]).value]>>
         ELSE <<>>
    ELSE <<>>

\* the local variables of _extract_site_info before the record is built
ExtractLocals(d, site_id) ==
    [site_name |-> SiteName(d.text, site_id),
     price |-> Price(d.text),
     occupancy |-> Occupancy(d.text),
     site_type |-> SiteType(d.text),
     location |-> Location(Get(d, "data-lat"), Get(d, "data-lng"))]

\* the AvailableCampsite(...) call; int(site_id) has succeeded.  The price
\* is not among its arguments.
AvailableCampsite(site_id, site_name, site_type, occupancy, location, campground_id, campground_name, start_date, end_date) ==
    [campsite_id |-> ParseInt(site_id).value,
     booking_date |-> start_date,
     booking_end_date |-> end_date,
     booking_nights |-> end_date - start_date,
     campsite_site_name |-> site_name,
     campsite_loop_name |-> campground_name,
     campsite_type |-> site_type,
     campsite_occupancy |-> <<occupancy, occupancy>>,
     campsite_use_type |-> "Overnight",
     availability_status |-> "Available",
     recreation_area |-> campground_name,
     recreation_area_id |-> campground_id,
     facility_name |-> campground_name,
     facility_id |-> campground_id,
     booking_url |-> base_url \o reservation_path,
     location |-> location]

\* mutant: price_match.group(1) read without the `if price_match` test
ExtractRaises_PriceUnchecked(d, site_id) ==
    ~ParseInt(site_id).ok \/ ~price_match(d.text).matched

\* _extract_site_info: <<record>>, or <<>> (None) when anything raised; the
\* one statement that can raise is int(site_id)
ExtractRaises(d, site_id) == ~ParseInt(site_id).ok

_extract_site_info(d, site_id, campground_id, campground_name, start_date, end_date) ==
    IF ExtractRaises(d, site_id) THEN <<>>
    ELSE <<AvailableCampsite(site_id, SiteName(d.text, site_id), SiteType(d.text),
                             Occupancy(d.text),
                             Location(Get(d, "data-lat"), Get(d, "data-lng")),
                             campground_id, campground_name, start_date, end_date)>>

(***************************************************************************)
(* Inputs: site fragments.                                                 *)
(***************************************************************************)
SiteSegs == {"", "Site 47", "Campsite  12b"}
FeeSegs == {"", "Use Fee: $35.00", "Use Fee:$20.5", "Use Fee: $abc"}
PersonSegs == {"", "Persons: 6", "Persons: many"}
TypeSegs == {"", "RV", "tent", "Tent RV", "GROUP", "group tent", "Reserve", "Walk-in"}
SiteIds == {"47", " 0101", "12B"}
Coordinates ==
    { << >>,
      <<"data-lat", "34.5", "data-lng", "-120.1">>,
      <<"data-lat", "", "data-lng", "-120.1">>,
      <<"data-lat", "north", "data-lng", "-120.1">>,
      <<"data-lat", "0", "data-lng", "+7.25">> }

CoordAttrs(c) ==
    IF Len(c) = 0 THEN << >>
    ELSE IF Len(c) = 2 THEN c[1] :> c[2]
    ELSE (c[1] :> c[2]) @@ (c[3] :> c[4])

MakeDiv(id, text, c) == [text |-> text, attrs |-> ("data-id" :> id) @@ CoordAttrs(c)]

Divs ==
    { MakeDiv(id, a \o " " \o b \o " " \o c \o " " \o t, xy) :
        id \in SiteIds, a \in SiteSegs, b \in FeeSegs, c \in PersonSegs,
        t \in TypeSegs, xy \in Coordinates }

\* the date ranges of the calls: check-in on the last day, check-out on any
\* day up to the one after it (before, the same day, after)
DateRanges == { <<MaxDay, e>> : e \in 0..(MaxDay + 1) }

(***************************************************************************)
(* _parse_availability_html.  A response is the sequence of its nodes; a   *)
(* node that carries no data-id is not a site container.                   *)
(***************************************************************************)
\* soup.find_all('div', {'data-id': True})
RECURSIVE FindAllSiteDivs(_)
FindAllSiteDivs(nodes) ==
    IF Len(nodes) = 0 THEN <<>>
    ELSE IF "data-id" \in DOMAIN Head(nodes).attrs
         THEN <<Head(nodes)>> \o FindAllSiteDivs(Tail(nodes))
         ELSE FindAllSiteDivs(Tail(nodes))

\* mutant: the seen-set test never skips
AlreadySeen_Never(site_id, seen_sites) == FALSE

\* `site_id in seen_sites`
AlreadySeen(site_id, seen_sites) == site_id \in seen_sites

\* mutant: a failing fragment ends the loop instead of being skipped
RECURSIVE ParseLoop_Abort(_, _, _, _, _, _, _, _)
ParseLoop_Abort(site_divs, i, seen_sites, acc, campground_id, campground_name, start_date, end_date) ==
    IF i > Len(site_divs) THEN acc
    ELSE LET site_id == site_divs[i].attrs["data-id"]
         IN  IF AlreadySeen(site_id, seen_sites)
             THEN ParseLoop_Abort(site_divs, i + 1, seen_sites, acc, campground_id,
                                  campground_name, start_date, end_date)
             ELSE IF ExtractRaises(site_divs[i], site_id) THEN acc
             ELSE ParseLoop_Abort(site_divs, i + 1, seen_sites \cup {site_id},
                            acc \o _extract_site_info(site_divs[i], site_id, campground_id,
                                                      campground_name, start_date, end_date),
                            campground_id, campground_name, start_date, end_date)

\* the loop over site_divs from index i on, with the sites seen and the
\* records collected so far
RECURSIVE ParseLoop(_, _, _, _, _, _, _, _)
ParseLoop(site_divs, i, seen_sites, acc, campground_id, campground_name, start_date, end_date) ==
    IF i > Len(site_divs) THEN acc
    ELSE LET site_id == site_divs[i].attrs["data-id"]
         IN  IF AlreadySeen(site_id, seen_sites)
             THEN ParseLoop(site_divs, i + 1, seen_sites, acc, campground_id,
                            campground_name, start_date, end_date)
             ELSE ParseLoop(site_divs, i + 1, seen_sites \cup {site_id},
                            acc \o _extract_site_info(site_divs[i], site_id, campground_id,
                                                      campground_name, start_date, end_date),
                            campground_id, campground_name, start_date, end_date)

_parse_availability_html(nodes, campground_id, campground_name, start_date, end_date) ==
    LET site_divs == FindAllSiteDivs(nodes)
    IN  IF Len(site_divs) = 0 THEN <<>>
        ELSE ParseLoop(site_divs, 1, {}, <<>>, campground_id, campground_name,
                       start_date, end_date)

(***************************************************************************)
(* Inputs: responses.                                                      *)
(***************************************************************************)
Div101 == MakeDiv("101", "Site 1 Use Fee: $35 RV", <<>>)
Div101Again == MakeDiv("101", "Site 1 tent", <<"data-lat", "34.5", "data-lng", "-120.1">>)
Div102 == MakeDiv("102", "Persons: 4 tent", <<>>)
Div0101 == MakeDiv("0101", "Site 3", <<>>)
Div12B == MakeDiv("12B", "Site 12B", <<>>)
Legend == [text |-> "Legend", attrs |-> << >>]

NodeSamples == {Div101, Div101Again, Div102, Div0101, Div12B, Legend}

SeqsUpTo(S, n) == UNION { [1..k -> S] : k \in 0..n }

Responses == SeqsUpTo(NodeSamples, MaxDivs)

(***************************************************************************)
(* The facility catalog: find_campgrounds and _get_campground_name.        *)
(* A catalog response is what requests.get gives: an exception, or a       *)
(* status and a page; the page has the parent_idno select or not.          *)
(***************************************************************************)
\* the one status the code accepts
StatusOk == 200

CatalogGet == [method |-> "GET", via |-> "requests"]
SessionGet == [method |-> "GET", via |-> "session"]
SessionPost == [method |-> "POST", via |-> "session"]

NoError == [kind |-> "none", stage |-> "", status |-> 0]
CamavaError(stage, status) == [kind |-> "CamavaError", stage |-> stage, status |-> status]
NetworkError(stage) == [kind |-> "RequestException", stage |-> stage, status |-> 0]

CampgroundFacility(facility_name, facility_id) ==
    [facility_name |-> facility_name,
     facility_id |-> facility_id,
     recreation_area |-> park_name,
     recreation_area_id |-> facility_id]

\* the loop over the options of the select: empty values and names are
\* skipped, and so are values that are no integer
RECURSIVE BuildCampgrounds(_)
BuildCampgrounds(options) ==
    IF Len(options) = 0 THEN <<>>
    ELSE LET facility_id == Strip(Head(options).value)
             facility_name == Strip(Head(options).text)
         IN  IF Len(facility_id) = 0 \/ Len(facility_name) = 0
             THEN BuildCampgrounds(Tail(options))
             ELSE IF ParseInt(facility_id).ok
             THEN <<CampgroundFacility(facility_name, ParseInt(facility_id).value)>>
                  \o BuildCampgrounds(Tail(options))
             ELSE BuildCampgrounds(Tail(options))

\* the body of the try block, entered with the cache unset
FetchCampgrounds(cache, resp) ==
    IF resp.raises
    THEN [raised |-> TRUE, ret |-> <<>>, cache |-> cache, requests |-> <<CatalogGet>>]
    ELSE IF resp.status_code # StatusOk
    THEN [raised |-> FALSE, ret |-> <<>>, cache |-> cache, requests |-> <<CatalogGet>>]
    ELSE IF ~resp.has_select
    THEN [raised |-> FALSE, ret |-> <<>>, cache |-> cache, requests |-> <<CatalogGet>>]
    ELSE [raised |-> FALSE,
          ret |-> BuildCampgrounds(resp.options),
          cache |-> [is_none |-> FALSE, list |-> BuildCampgrounds(resp.options)],
          requests |-> <<CatalogGet>>]

\* mutant: no `except Exception` around the fetch
find_campgrounds_NoCatch(cache, resp) ==
    IF ~cache.is_none
    THEN [raised |-> FALSE, ret |-> cache.list, cache |-> cache, requests |-> <<>>]
    ELSE FetchCampgrounds(cache, resp)

\* mutant: no test of the cache on entry
find_campgrounds_NoCacheCheck(cache, resp) ==
    IF FetchCampgrounds(cache, resp).raised
    THEN [raised |-> FALSE, ret |-> <<>>, cache |-> cache,
          requests |-> FetchCampgrounds(cache, resp).requests]
    ELSE FetchCampgrounds(cache, resp)

find_campgrounds(cache, resp) ==
    IF ~cache.is_none
    THEN [raised |-> FALSE, ret |-> cache.list, cache |-> cache, requests |-> <<>>]
    ELSE IF FetchCampgrounds(cache, resp).raised
    THEN [raised |-> FALSE, ret |-> <<>>, cache |-> cache,
          requests |-> FetchCampgrounds(cache, resp).requests]
    ELSE FetchCampgrounds(cache, resp)

\* the first campground of the list with this id, else the park name
RECURSIVE LookupName(_, _)
LookupName(list, campground_id) ==
    IF Len(list) = 0 THEN park_name
    ELSE IF Head(list).facility_id = campground_id THEN Head(list).facility_name
    ELSE LookupName(Tail(list), campground_id)

\* mutant: no fallback to the park name when the lookup finds nothing
_get_campground_name_NoFallback(cache, campground_id, resp) ==
    LET found == IF cache.is_none THEN find_campgrounds(cache, resp)
                 ELSE [raised |-> FALSE, ret |-> <<>>, cache |-> cache, requests |-> <<>>]
        name == IF ~found.cache.is_none /\ Len(found.cache.list) > 0
                THEN LookupName(found.cache.list, campground_id)
                ELSE park_name
    IN  [raised |-> found.raised,
         name |-> IF name = park_name THEN "" ELSE name,
         cache |-> found.cache,
         requests |-> found.requests]

_get_campground_name(cache, campground_id, resp) ==
    LET found == IF cache.is_none THEN find_campgrounds(cache, resp)
                 ELSE [raised |-> FALSE, ret |-> <<>>, cache |-> cache, requests |-> <<>>]
    IN  [raised |-> found.raised,
         name |-> IF ~found.cache.is_none /\ Len(found.cache.list) > 0
                  THEN LookupName(found.cache.list, campground_id)
                  ELSE park_name,
         cache |-> found.cache,
         requests |-> found.requests]

(***************************************************************************)
(* The availability session: _get_availability_html and get_campsites.     *)
(***************************************************************************)
\* mutant: the status of the session GET is not looked at
_get_availability_html_NoGetCheck(campground_id, start_date, end_date, get_resp, post_resp) ==
    IF get_resp.raises
    THEN [raised |-> TRUE, error |-> NetworkError("session"), text |-> <<>>,
          requests |-> <<SessionGet>>]
    ELSE IF post_resp.raises
    THEN [raised |-> TRUE, error |-> NetworkError("search"), text |-> <<>>,
          requests |-> <<SessionGet, SessionPost>>]
    ELSE IF post_resp.status_code # StatusOk
    THEN [raised |-> TRUE, error |-> CamavaError("search", post_resp.status_code),
          text |-> <<>>, requests |-> <<SessionGet, SessionPost>>]
    ELSE [raised |-> FALSE, error |-> NoError, text |-> post_resp.text,
          requests |-> <<SessionGet, SessionPost>>]

\* mutant: the search POST is sent without the initial GET of the session
_get_availability_html_NoInitialGet(campground_id, start_date, end_date, get_resp, post_resp) ==
    IF post_resp.raises
    THEN [raised |-> TRUE, error |-> NetworkError("search"), text |-> <<>>,
          requests |-> <<SessionPost>>]
    ELSE IF post_resp.status_code # StatusOk
    THEN [raised |-> TRUE, error |-> CamavaError("search", post_resp.status_code),
          text |-> <<>>, requests |-> <<SessionPost>>]
    ELSE [raised |-> FALSE, error |-> NoError, text |-> post_resp.text,
          requests |-> <<SessionPost>>]

_get_availability_html(campground_id, start_date, end_date, get_resp, post_resp) ==
    IF get_resp.raises
    THEN [raised |-> TRUE, error |-> NetworkError("session"), text |-> <<>>,
          requests |-> <<SessionGet>>]
    ELSE IF get_resp.status_code # StatusOk
    THEN [raised |-> TRUE, error |-> CamavaError("session", get_resp.status_code),
          text |-> <<>>, requests |-> <<SessionGet>>]
    ELSE IF post_resp.raises
    THEN [raised |-> TRUE, error |-> NetworkError("search"), text |-> <<>>,
          requests |-> <<SessionGet, SessionPost>>]
    ELSE IF post_resp.status_code # StatusOk
    THEN [raised |-> TRUE, error |-> CamavaError("search", post_resp.status_code),
          text |-> <<>>, requests |-> <<SessionGet, SessionPost>>]
    ELSE [raised |-> FALSE, error |-> NoError, text |-> post_resp.text,
          requests |-> <<SessionGet, SessionPost>>]

get_campsites(cache, campground_id, start_date, end_date, catalog_resp, get_resp, post_resp) ==
    LET named == _get_campground_name(cache, campground_id, catalog_resp)
        fetched == _get_availability_html(campground_id, start_date, end_date,
                                          get_resp, post_resp)
    IN  IF named.raised
        THEN [raised |-> TRUE, error |-> NetworkError("catalog"), ret |-> <<>>,
              cache |-> named.cache, requests |-> named.requests]
        ELSE IF fetched.raised
        THEN [raised |-> TRUE, error |-> fetched.error, ret |-> <<>>,
              cache |-> named.cache, requests |-> named.requests \o fetched.requests]
        ELSE [raised |-> FALSE, error |-> NoError,
              ret |-> _parse_availability_html(fetched.text, campground_id, named.name,
                                               start_date, end_date),
              cache |-> named.cache, requests |-> named.requests \o fetched.requests]

(***************************************************************************)
(* Inputs: what the server answers.                                        *)
(***************************************************************************)
OptionSamples ==
    { [value |-> "1", text |-> "Cachuma Lake"],
      [value |-> " 2 ", text |-> " Jalama Beach "],
      [value |-> "", text |-> "Select a park"],
      [value |-> "x", text |-> "Other"] }


CatalogFailure == [raises |-> TRUE, status_code |-> 0, has_select |-> FALSE, options |-> <<>>]
CatalogResponses ==
    {CatalogFailure}
    \cup {[raises |-> FALSE, status_code |-> 500,
           has_select |-> TRUE, options |-> <<>>]}
    \cup {[raises |-> FALSE, status_code |-> StatusOk, has_select |-> FALSE, options |-> <<>>]}
    \cup {[raises |-> FALSE, status_code |-> StatusOk, has_select |-> TRUE, options |-> o] :
             o \in SeqsUpTo(OptionSamples, MaxOptions)}

GetResponses ==
    { [raises |-> TRUE, status_code |-> 0],
      [raises |-> FALSE, status_code |-> StatusOk],
      [raises |-> FALSE, status_code |-> 500] }

SearchPages == { <<Legend>>, <<Div101, Div102, Div101Again>>, <<Div12B, Div102>> }

PostResponses ==
    { [raises |-> TRUE, status_code |-> 0, text |-> <<>>],
      [raises |-> FALSE, status_code |-> 503, text |-> <<>>] }
    \cup {[raises |-> FALSE, status_code |-> StatusOk, text |-> t] : t \in SearchPages}

CampgroundIds == {2, 3}

\* what the session GET and the search POST answer in one call; after a
\* failing GET no POST is sent, and the answer it would get is a good one
SessionAnswers ==
    { <<g, p>> : g \in {r \in GetResponses : ~r.raises /\ r.status_code = StatusOk},
                p \in PostResponses }
    \cup { <<g, [raises |-> FALSE, status_code |-> StatusOk,
                 text |-> <<Div101, Div102, Div101Again>>]>> :
              g \in {r \in GetResponses : r.raises \/ r.status_code # StatusOk} }

(***************************************************************************)
(* Idle values of the variables a specification does not use.              *)
(***************************************************************************)
NoDiv == [text |-> "", attrs |-> << >>]
NoLocals == [site_name |-> "", price |-> 0, occupancy |-> 0,
             site_type |-> "", location |-> <<>>]
NoOutcome == [op |-> "none", campground_id |-> 0, start_date |-> 0, end_date |-> 0]
CacheNone == [is_none |-> TRUE, list |-> <<>>]

ProviderIdle ==
    /\ campground_cache = CacheNone
    /\ requests = <<>>
    /\ outcome = NoOutcome
ParseIdle == html = <<>> /\ campsites = <<>>
ExtractIdle == div = NoDiv /\ site_info = <<>> /\ site_locals = NoLocals
ThreadsIdle == pc = <<>> /\ local = <<>> /\ observed = {}
NoSearch == [campgrounds |-> <<>>, campsites |-> <<>>, nights |-> 0,
             weekends_only |-> FALSE, search_days |-> <<>>]
NoPosition == [pc |-> "none", i |-> 0, j |-> 0]
SearchIdle ==
    search = NoSearch /\ position = NoPosition /\ all_campsites = <<>> /\ calls = <<>>

(***************************************************************************)
(* SpecExtract: _extract_site_info applied to one fragment.                *)
(***************************************************************************)
InitExtract ==
    /\ ParseIdle /\ ThreadsIdle /\ SearchIdle
    /\ div \in Divs
    /\ site_info = <<>>
    /\ site_locals = NoLocals
    /\ outcome = [op |-> "pending", campground_id |-> 2,
                  start_date |-> 0, end_date |-> MaxDay]
    /\ requests = <<>>
    /\ campground_cache = CacheNone

ExtractSiteInfo ==
    /\ outcome.op = "pending"
    /\ site_info' = _extract_site_info(div, div.attrs["data-id"], outcome.campground_id,
                                       park_name, outcome.start_date, outcome.end_date)
    /\ site_locals' = ExtractLocals(div, div.attrs["data-id"])
    /\ outcome' = [outcome EXCEPT !.op = "_extract_site_info"]
    /\ UNCHANGED <<campground_cache, requests, html, campsites, div, pc, local, observed, searchVars>>

NextExtract == ExtractSiteInfo

SpecExtract == InitExtract /\ [][NextExtract]_vars

(***************************************************************************)
(* SpecParse: _parse_availability_html applied to one response.            *)
(***************************************************************************)
InitParse ==
    /\ ExtractIdle /\ ThreadsIdle /\ SearchIdle
    /\ html \in Responses
    /\ campsites = <<>>
    /\ outcome = [op |-> "pending", campground_id |-> 2,
                  start_date |-> 0, end_date |-> MaxDay]
    /\ requests = <<>>
    /\ campground_cache = CacheNone

ParseAvailabilityHtml ==
    /\ outcome.op = "pending"
    /\ campsites' = _parse_availability_html(html, outcome.campground_id, park_name,
                                             outcome.start_date, outcome.end_date)
    /\ outcome' = [outcome EXCEPT !.op = "_parse_availability_html"]
    /\ UNCHANGED <<campground_cache, requests, html, div, site_info, site_locals,
                   pc, local, observed, searchVars>>

NextParse == ParseAvailabilityHtml

SpecParse == InitParse /\ [][NextParse]_vars

(***************************************************************************)
(* Properties of _parse_availability_html (SpecParse).                     *)
(***************************************************************************)
DataId(d) == d.attrs["data-id"]
SiteDivs == SelectSeq(html, LAMBDA n : "data-id" \in DOMAIN n.attrs)
\* positions of the fragments that are the first with their data-id
FirstSeen == { i \in 1..Len(SiteDivs) :
                 \A j \in 1..(i - 1) : DataId(SiteDivs[j]) # DataId(SiteDivs[i]) }
\* those of them whose data-id is an integer
FirstSeenGood == { i \in FirstSeen : ParseInt(DataId(SiteDivs[i])).ok }
\* the k-th smallest element of a set of positions
Nth(S, k) == CHOOSE i \in S : Cardinality({ j \in S : j <= i }) = k
RecordOf(d) ==
    AvailableCampsite(DataId(d), SiteName(d.text, DataId(d)), SiteType(d.text),
                      Occupancy(d.text), Location(Get(d, "data-lat"), Get(d, "data-lng")),
                      outcome.campground_id, park_name,
                      outcome.start_date, outcome.end_date)
Parsed == outcome.op = "_parse_availability_html"
WellFormed == \A i \in 1..Len(SiteDivs) : ParseInt(DataId(SiteDivs[i])).ok

\* C1: for a response whose fragments are all well-formed the result holds
\* exactly one record per distinct data-id, built from the first fragment that
\* carries it, in the order in which the identifiers are first seen.
C1_OneRecordPerDataId ==
    (Parsed /\ WellFormed) =>
        /\ Len(campsites) = Cardinality(FirstSeen)
        /\ \A k \in 1..Len(campsites) :
              campsites[k] = RecordOf(SiteDivs[Nth(FirstSeen, k)])

\* C1 witness: ids 101, 102, 101 (the two 101 fragments differ) gave 101, 102
\* with the fields of the first 101 fragment.
C1_Witness ==
    /\ Parsed
    /\ Len(SiteDivs) = 3
    /\ [i \in 1..3 |-> DataId(SiteDivs[i])] = <<"101", "102", "101">>
    /\ SiteDivs[1].text # SiteDivs[3].text
    /\ Len(campsites) = 2
    /\ campsites[1] = RecordOf(SiteDivs[1])
    /\ campsites[2].campsite_id = 102

\* C6: a fragment whose extraction raises is dropped alone: the result is the
\* records of all other first-seen fragments, in their order.
C6_FailuresIsolated ==
    Parsed =>
        /\ Len(campsites) = Cardinality(FirstSeenGood)
        /\ \A k \in 1..Len(campsites) :
              campsites[k] = RecordOf(SiteDivs[Nth(FirstSeenGood, k)])

\* C6 witness: the first fragment has a data-id that is no integer, and the
\* fragments after it still gave their records.
C6_Witness ==
    /\ Parsed
    /\ Len(SiteDivs) = 3
    /\ ~ParseInt(DataId(SiteDivs[1])).ok
    /\ Len(campsites) = 2
    /\ campsites[1] = RecordOf(SiteDivs[2])
    /\ campsites[2] = RecordOf(SiteDivs[3])

(***************************************************************************)
(* Properties of _extract_site_info (SpecExtract).                         *)
(***************************************************************************)
Extracted == outcome.op = "_extract_site_info"
HasRV == Contains(Lower(div.text), "rv")
HasTent == Contains(Lower(div.text), "tent")
HasGroup == Contains(Lower(div.text), "group")

\* C7: the site type follows the precedence RV > Tent > Group > Standard,
\* each token looked for as a substring of the text in any case.
C7_TypePrecedence ==
    Extracted =>
        /\ HasRV => site_locals.site_type = "RV"
        /\ (~HasRV /\ HasTent) => site_locals.site_type = "Tent"
        /\ (~HasRV /\ ~HasTent /\ HasGroup) => site_locals.site_type = "Group"
        /\ (~HasRV /\ ~HasTent /\ ~HasGroup) => site_locals.site_type = "Standard"
        /\ site_info # <<>> => site_info[1].campsite_type = site_locals.site_type

\* C7 witness: a text with both "RV" and "tent" was classified RV.
C7_Witness ==
    /\ Extracted
    /\ Contains(div.text, "RV") /\ HasTent
    /\ site_info # <<>>
    /\ site_info[1].campsite_type = "RV"

\* C8 (as claimed): the emitted record carries the label, the price, the
\* occupancy bound, the site type and the coordinates extracted from the
\* fragment.
C8_RecordCarriesAllFields ==
    (Extracted /\ site_info # <<>>) =>
        /\ site_info[1].campsite_site_name = site_locals.site_name
        /\ site_info[1].campsite_occupancy = <<site_locals.occupancy, site_locals.occupancy>>
        /\ site_info[1].campsite_type = site_locals.site_type
        /\ site_info[1].location = site_locals.location
        /\ "price" \in DOMAIN site_info[1]
        /\ site_info[1].price = site_locals.price

\* the text has "Use Fee:", optional whitespace, "$" and a digit
HasFeeAmount ==
    \E i \in 1..Len(div.text) :
        /\ StartsAt(div.text, i, "Use Fee:")
        /\ LET k == SkipSpaces(div.text, i + 8)
           IN  /\ k + 1 <= Len(div.text)
               /\ Char(div.text, k) = "$"
               /\ IsDigit(Char(div.text, k + 1))
\* the text has "Persons:", optional whitespace and a digit
HasPersonsCount ==
    \E i \in 1..Len(div.text) :
        /\ StartsAt(div.text, i, "Persons:")
        /\ LET k == SkipSpaces(div.text, i + 8)
           IN  k <= Len(div.text) /\ IsDigit(Char(div.text, k))

Init ==
    /\ ProviderIdle /\ ParseIdle /\ ExtractIdle /\ ThreadsIdle /\ SearchIdle

FindCampgrounds ==
    \E resp \in CatalogResponses :
        \E r \in {find_campgrounds(campground_cache, resp)} :
            /\ campground_cache' = r.cache
            /\ requests' = r.requests
            /\ outcome' = [op |-> "find_campgrounds", campground_id |-> 0,
                           start_date |-> 0, end_date |-> 0,
                           cache_before |-> campground_cache, catalog |-> resp, raised |-> r.raised, error |-> NoError,
                           ret |-> r.ret]
            /\ UNCHANGED <<html, campsites, div, site_info, site_locals, pc, local, observed, searchVars>>

GetAvailabilityHtml ==
    \E campground_id \in CampgroundIds, dates \in DateRanges, answer \in SessionAnswers :
        \E start_date \in {dates[1]}, end_date \in {dates[2]},
           get_resp \in {answer[1]}, post_resp \in {answer[2]} :
        \E r \in {_get_availability_html(campground_id, start_date, end_date,
                                         get_resp, post_resp)} :
            /\ requests' = r.requests
            /\ outcome' = [op |-> "_get_availability_html", campground_id |-> campground_id,
                           start_date |-> start_date, end_date |-> end_date,
                           get |-> get_resp, post |-> post_resp,
                           raised |-> r.raised, error |-> r.error, ret |-> r.text]
            /\ UNCHANGED <<campground_cache, html, campsites, div, site_info, site_locals,
                           pc, local, observed, searchVars>>

\* the catalog answer matters only while the cache is unset (line 182)
CatalogAnswers ==
    IF campground_cache.is_none THEN CatalogResponses
    ELSE {CatalogFailure,
          [raises |-> FALSE, status_code |-> StatusOk, has_select |-> TRUE,
           options |-> <<[value |-> "3", text |-> "New Park"]>>]}

GetCampsites ==
    \E campground_id \in CampgroundIds, dates \in DateRanges,
       catalog_resp \in CatalogAnswers, answer \in SessionAnswers :
        \E start_date \in {dates[1]}, end_date \in {dates[2]},
           get_resp \in {answer[1]}, post_resp \in {answer[2]} :
        \E r \in {get_campsites(campground_cache, campground_id, start_date, end_date,
                                 catalog_resp, get_resp, post_resp)} :
            /\ campground_cache' = r.cache
            /\ requests' = r.requests
            /\ outcome' = [op |-> "get_campsites", campground_id |-> campground_id,
                           start_date |-> start_date, end_date |-> end_date,
                           cache_before |-> campground_cache,
                           get |-> get_resp, post |-> post_resp,
                           raised |-> r.raised, error |-> r.error, ret |-> r.ret]
            /\ UNCHANGED <<html, campsites, div, site_info, site_locals, pc, local, observed, searchVars>>

Next == FindCampgrounds \/ GetAvailabilityHtml \/ GetCampsites

Spec == Init /\ [][Next]_vars

(***************************************************************************)
(* SpecThreads: NThreads callers on one provider instance, each making one *)
(* call of find_campgrounds or of the name lookup of get_campsites.  The   *)
(* steps are the reads and the write of self._campground_cache and the     *)
(* network request between them; the code takes no lock.                   *)
(***************************************************************************)
Threads == 1..NThreads

NoLocal == [entry |-> "", campgrounds |-> <<>>, ret |-> <<>>, name |-> ""]

InitThreads ==
    /\ ProviderIdle /\ ParseIdle /\ ExtractIdle /\ SearchIdle
    /\ pc = [t \in Threads |-> "idle"]
    /\ local = [t \in Threads |-> NoLocal]
    /\ observed = {}

\* a caller enters find_campgrounds, or _get_campground_name from get_campsites
Call(t) ==
    /\ pc[t] = "idle"
    /\ \E entry \in {"find_campgrounds", "get_campsites"} :
        /\ local' = [local EXCEPT ![t].entry = entry]
        /\ pc' = [pc EXCEPT ![t] = IF entry = "get_campsites" THEN "name_check" ELSE "entry"]
    /\ UNCHANGED <<campground_cache, requests, outcome, html, campsites, div,
                   site_info, site_locals, observed, searchVars>>

\* line 182: `if self._campground_cache is None`
NameCheck(t) ==
    /\ pc[t] = "name_check"
    /\ observed' = observed \cup {campground_cache}
    /\ pc' = [pc EXCEPT ![t] = IF campground_cache.is_none THEN "entry" ELSE "lookup"]
    /\ UNCHANGED <<campground_cache, requests, outcome, html, campsites, div,
                   site_info, site_locals, local, searchVars>>

\* lines 79-80: `if self._campground_cache is not None: return ...`
Entry(t) ==
    /\ pc[t] = "entry"
    /\ observed' = observed \cup {campground_cache}
    /\ IF campground_cache.is_none
       THEN /\ pc' = [pc EXCEPT ![t] = "fetch"]
            /\ UNCHANGED local
       ELSE /\ pc' = [pc EXCEPT ![t] = "returned"]
            /\ local' = [local EXCEPT ![t].ret = campground_cache.list]
    /\ UNCHANGED <<campground_cache, requests, outcome, html, campsites, div,
                   site_info, site_locals, searchVars>>

\* lines 84-126 and 132-134: the request and the list built from its answer,
\* in the thread's own variables
Fetch(t) ==
    /\ pc[t] = "fetch"
    /\ \E resp \in CatalogResponses :
        \E r \in {FetchCampgrounds(CacheNone, resp)} :
            /\ requests' = requests \o r.requests
            /\ IF r.cache.is_none
               THEN /\ pc' = [pc EXCEPT ![t] = "returned"]
                    /\ local' = [local EXCEPT ![t].ret = <<>>]
               ELSE /\ pc' = [pc EXCEPT ![t] = "publish"]
                    /\ local' = [local EXCEPT ![t].campgrounds = r.ret]
    /\ UNCHANGED <<campground_cache, outcome, html, campsites, div,
                   site_info, site_locals, observed, searchVars>>

\* lines 128-130: `self._campground_cache = campgrounds`
Publish(t) ==
    /\ pc[t] = "publish"
    /\ campground_cache' = [is_none |-> FALSE, list |-> local[t].campgrounds]
    /\ local' = [local EXCEPT ![t].ret = local[t].campgrounds]
    /\ pc' = [pc EXCEPT ![t] = "returned"]
    /\ UNCHANGED <<requests, outcome, html, campsites, div, site_info, site_locals,
                   observed, searchVars>>

\* find_campgrounds has returned: to its caller, or into _get_campground_name
Return(t) ==
    /\ pc[t] = "returned"
    /\ pc' = [pc EXCEPT ![t] = IF local[t].entry = "get_campsites" THEN "lookup" ELSE "done"]
    /\ UNCHANGED <<campground_cache, requests, outcome, html, campsites, div,
                   site_info, site_locals, local, observed, searchVars>>

\* lines 186-192: the lookup in the cache
Lookup(t) ==
    /\ pc[t] = "lookup"
    /\ observed' = observed \cup {campground_cache}
    /\ \E campground_id \in CampgroundIds :
        local' = [local EXCEPT ![t].name =
                    IF ~campground_cache.is_none /\ Len(campground_cache.list) > 0
                    THEN LookupName(campground_cache.list, campground_id)
                    ELSE park_name]
    /\ pc' = [pc EXCEPT ![t] = "done"]
    /\ UNCHANGED <<campground_cache, requests, outcome, html, campsites, div,
                   site_info, site_locals, searchVars>>

NextThreads ==
    \E t \in Threads :
        \/ Call(t) \/ NameCheck(t) \/ Entry(t) \/ Fetch(t)
        \/ Publish(t) \/ Return(t) \/ Lookup(t)

SpecThreads == InitThreads /\ [][NextThreads]_vars

(***************************************************************************)
(* SpecSearch: get_all_campsites of SearchSantaBarbaraCountyParks           *)
(* (camply/search/search_camava.py) on its own provider instance.  The     *)
(* search days are what _get_search_days() of the base class returned;     *)
(* days are integers, day 0 a Monday.  One action is the set-up, one is an *)
(* iteration of the loops, one is the filter and the return.               *)
(***************************************************************************)
Friday == 4

Weekday(day) == day % 7

\* line 84: the ids given, else the default park.  The default is the integer
\* 2 in the source; int() gives 2 for it as for "2".
campground_ids == IF Len(search.campgrounds) > 0 THEN search.campgrounds ELSE <<"2">>

\* lines 87 and 94-95
search_days ==
    IF search.weekends_only
    THEN SelectSeq(search.search_days, LAMBDA day : Weekday(day) = Friday)
    ELSE search.search_days

\* line 90
nights ==
    IF search.nights > 1 THEN search.nights
    ELSE IF search.weekends_only THEN 2 ELSE 1

ValueError == [kind |-> "ValueError", stage |-> "", status |-> 0]

\* lines 109-113: int(campground_id), then the provider's get_campsites
CallGetCampsites(cache, campground_id, start_date, end_date, answer) ==
    IF ~ParseInt(campground_id).ok
    THEN [raised |-> TRUE, error |-> ValueError, ret |-> <<>>,
          cache |-> cache, requests |-> <<>>]
    ELSE get_campsites(cache, ParseInt(campground_id).value, start_date, end_date,
                       answer.catalog, answer.get, answer.post)

\* mutant: `except CamavaError` in place of `except Exception`
TryGetCampsites_OnlyCamavaError(cache, campground_id, start_date, end_date, answer) ==
    LET call == CallGetCampsites(cache, campground_id, start_date, end_date, answer)
    IN  [propagates |-> call.raised /\ call.error.kind # "CamavaError", call |-> call]

\* lines 108-116: the try statement; `except Exception` lets nothing through
TryGetCampsites(cache, campground_id, start_date, end_date, answer) ==
    [propagates |-> FALSE,
     call |-> CallGetCampsites(cache, campground_id, start_date, end_date, answer)]

\* lines 100-101: the combination after (i, j), or the end of the loops
NextPosition(i, j) ==
    IF j < Len(search_days) THEN [pc |-> "loop", i |-> i, j |-> j + 1]
    ELSE IF i < Len(campground_ids) THEN [pc |-> "loop", i |-> i + 1, j |-> 1]
    ELSE [pc |-> "filter", i |-> i, j |-> j]

\* lines 122-128: the records whose site number is one of those asked for
FilterCampsites(found, wanted) ==
    SelectSeq(found,
              LAMBDA campsite :
                  /\ site_match(campsite.campsite_site_name).matched
                  /\ \E k \in 1..Len(wanted) :
                        wanted[k] = site_match(campsite.campsite_site_name).group)

\* inputs: the search object
CampgroundLists ==
    { l \in {<<>>, <<"2">>, <<"3", "2">>, <<"x", "3">>, <<"2", "x", "3">>} :
        Len(l) <= MaxCampgrounds }
SearchDayLists == {<<>>, <<Friday>>, <<Friday, Friday + 1>>}
SearchSettings ==
    { [weekends_only |-> FALSE, nights |-> 1, campsites |-> <<>>],
      [weekends_only |-> TRUE, nights |-> 1, campsites |-> <<>>],
      [weekends_only |-> FALSE, nights |-> 2, campsites |-> <<"1">>] }

\* inputs: what the server answers during one get_campsites call
SearchAnswers ==
    { [catalog |-> [raises |-> FALSE, status_code |-> StatusOk, has_select |-> TRUE,
                    options |-> <<[value |-> " 2 ", text |-> " Jalama Beach "]>>],
       get |-> [raises |-> FALSE, status_code |-> StatusOk],
       post |-> [raises |-> FALSE, status_code |-> StatusOk, text |-> <<Div101, Div102>>]],
      [catalog |-> CatalogFailure,
       get |-> [raises |-> FALSE, status_code |-> 500],
       post |-> [raises |-> FALSE, status_code |-> StatusOk, text |-> <<Div101, Div102>>]],
      [catalog |-> CatalogFailure,
       get |-> [raises |-> FALSE, status_code |-> StatusOk],
       post |-> [raises |-> TRUE, status_code |-> 0, text |-> <<>>]] }

InitSearch ==
    /\ ProviderIdle /\ ParseIdle /\ ExtractIdle /\ ThreadsIdle
    /\ \E campgrounds \in CampgroundLists, days \in SearchDayLists,
          settings \in SearchSettings :
          search = [campgrounds |-> campgrounds, campsites |-> settings.campsites,
                    nights |-> settings.nights, weekends_only |-> settings.weekends_only,
                    search_days |-> days]
    /\ position = [pc |-> "start", i |-> 0, j |-> 0]
    /\ all_campsites = <<>>
    /\ calls = <<>>

SearchResult(raised, ret) ==
    [op |-> "get_all_campsites", campground_id |-> 0, start_date |-> 0, end_date |-> 0,
     raised |-> raised, ret |-> ret]

\* lines 81-97: the set-up, up to the first combination
StartSearch ==
    /\ position.pc = "start"
    /\ all_campsites' = <<>>
    /\ position' = IF Len(search_days) > 0 THEN [pc |-> "loop", i |-> 1, j |-> 1]
                   ELSE [pc |-> "filter", i |-> 1, j |-> 1]
    /\ UNCHANGED <<campground_cache, requests, outcome, html, campsites, div,
                   site_info, site_locals, pc, local, observed, search, calls>>

\* lines 101-116: one combination of campground and search day
SearchCombination ==
    /\ position.pc = "loop"
    /\ \E answer \in SearchAnswers :
        \E campground_id \in {campground_ids[position.i]},
           search_day \in {search_days[position.j]} :
        \E start_date \in {search_day}, end_date \in {search_day + nights} :
        \E try \in {TryGetCampsites(campground_cache, campground_id,
                                    start_date, end_date, answer)} :
            /\ campground_cache' = try.call.cache
            /\ requests' = try.call.requests
            /\ calls' = Append(calls, [campground_id |-> campground_id,
                                       start_date |-> start_date,
                                       end_date |-> end_date,
                                       raised |-> try.call.raised,
                                       ret |-> try.call.ret])
            /\ IF try.propagates
               THEN /\ all_campsites' = all_campsites
                    /\ position' = [position EXCEPT !.pc = "done"]
                    /\ outcome' = SearchResult(TRUE, <<>>)
               ELSE /\ all_campsites' = IF try.call.raised THEN all_campsites
                                        ELSE all_campsites \o try.call.ret
                    /\ position' = NextPosition(position.i, position.j)
                    /\ outcome' = outcome
    /\ UNCHANGED <<html, campsites, div, site_info, site_locals, pc, local, observed,
                   search>>

\* lines 118-132: the filter on campsite numbers, and the return
ReturnCampsites ==
    /\ position.pc = "filter"
    /\ outcome' = SearchResult(FALSE,
                               IF Len(search.campsites) > 0
                               THEN FilterCampsites(all_campsites, search.campsites)
                               ELSE all_campsites)
    /\ position' = [position EXCEPT !.pc = "done"]
    /\ UNCHANGED <<campground_cache, requests, html, campsites, div, site_info,
                   site_locals, pc, local, observed, search, all_campsites, calls>>

NextSearch == StartSearch \/ SearchCombination \/ ReturnCampsites

SpecSearch == InitSearch /\ [][NextSearch]_vars

\* C13 (as claimed): the records of one _parse_availability_html call have
\* pairwise distinct integer campsite_id values, whatever the formatting of
\* the data-id strings.
C13_DistinctCampsiteIds ==
    Parsed =>
        \A i, j \in 1..Len(campsites) :
            i # j => campsites[i].campsite_id # campsites[j].campsite_id

(***************************************************************************)
(* Properties of the provider (Spec).                                      *)
(***************************************************************************)
SessionOps == {"get_campsites", "_get_availability_html"}
SessionRequests == SelectSeq(requests, LAMBDA q : q.via = "session")
Issued(q) == \E i \in 1..Len(requests) : requests[i] = q
CatalogFailed(resp) == resp.raises \/ resp.status_code # 200 \/ ~resp.has_select

\* C2 (as claimed): a call with end_date <= start_date is rejected before
\* any network request: it raises, and no GET and no POST is issued.
C2_RejectedBeforeNetwork ==
    (outcome.op \in SessionOps /\ outcome.end_date <= outcome.start_date) =>
        (outcome.raised /\ requests = <<>>)

\* C3: the search POST is issued only after the session GET returned 200; a
\* non-200 GET raises CamavaError with its status and sends no POST; a non-200
\* POST after a 200 GET raises CamavaError with the POST status; the body is
\* returned only when both returned 200.
C3_PostOnlyAfterGet200 ==
    outcome.op \in SessionOps =>
        /\ SessionRequests \in {<<SessionGet>>, <<SessionGet, SessionPost>>}
        /\ Issued(SessionPost) =>
              (~outcome.get.raises /\ outcome.get.status_code = 200)
        /\ (~outcome.get.raises /\ outcome.get.status_code # 200) =>
              /\ outcome.raised
              /\ outcome.error.kind = "CamavaError"
              /\ outcome.error.status = outcome.get.status_code
              /\ ~Issued(SessionPost)
        /\ (/\ ~outcome.get.raises /\ outcome.get.status_code = 200
            /\ ~outcome.post.raises /\ outcome.post.status_code # 200) =>
              /\ outcome.raised
              /\ outcome.error.kind = "CamavaError"
              /\ outcome.error.status = outcome.post.status_code
        /\ ~outcome.raised =>
              /\ ~outcome.get.raises /\ outcome.get.status_code = 200
              /\ ~outcome.post.raises /\ outcome.post.status_code = 200
              /\ outcome.op = "_get_availability_html" => outcome.ret = outcome.post.text

\* C3 witness: the GET returned 200, the POST 503, and the call raised
\* CamavaError with status 503 after both requests.
C3_Witness ==
    /\ outcome.op = "_get_availability_html"
    /\ outcome.get.status_code = 200 /\ ~outcome.get.raises
    /\ outcome.post.status_code = 503 /\ ~outcome.post.raises
    /\ outcome.raised
    /\ outcome.error = CamavaError("search", 503)
    /\ requests = <<SessionGet, SessionPost>>

\* C4: find_campgrounds never raises; on a network exception, a non-200
\* answer or a page without the select it returns the empty list and leaves
\* the cache unset, and a call that finds the cache unset performs the fetch.
C4_CatalogFailureIsEmptyList ==
    outcome.op = "find_campgrounds" =>
        /\ ~outcome.raised
        /\ (outcome.cache_before.is_none /\ CatalogFailed(outcome.catalog)) =>
              (outcome.ret = <<>> /\ campground_cache.is_none)
        /\ outcome.cache_before.is_none => requests = <<CatalogGet>>

\* C4 witness: the catalog answered 500; the call returned the empty list and
\* the cache is still unset.
C4_Witness ==
    /\ outcome.op = "find_campgrounds"
    /\ ~outcome.catalog.raises /\ outcome.catalog.status_code = 500
    /\ ~outcome.raised
    /\ outcome.ret = <<>>
    /\ campground_cache.is_none
    /\ requests = <<CatalogGet>>

\* C5: once the cache is set no call writes it again, none performs a catalog
\* request, find_campgrounds returns the cached list, and get_campsites names
\* its records from the cached list, whatever the page would now hold.
C5_Memoized ==
    (outcome.op \in {"find_campgrounds", "get_campsites"}
        /\ ~outcome.cache_before.is_none) =>
        /\ campground_cache = outcome.cache_before
        /\ ~Issued(CatalogGet)
        /\ outcome.op = "find_campgrounds" => outcome.ret = outcome.cache_before.list
        /\ outcome.op = "get_campsites" =>
              \A k \in 1..Len(outcome.ret) :
                  outcome.ret[k].facility_name =
                      LookupName(outcome.cache_before.list, outcome.campground_id)

\* C5 witness: the cache was set, the page would now give another list, and
\* find_campgrounds returned the cached list without a request.
C5_Witness ==
    /\ outcome.op = "find_campgrounds"
    /\ ~outcome.cache_before.is_none
    /\ ~CatalogFailed(outcome.catalog)
    /\ BuildCampgrounds(outcome.catalog.options) # outcome.cache_before.list
    /\ outcome.ret = outcome.cache_before.list
    /\ campground_cache = outcome.cache_before
    /\ requests = <<>>

\* C11 (as claimed): a get_campsites call that completes has issued exactly
\* two requests, the session GET and then the search POST, and no other.
C11_ExactlyTwoRequests ==
    (outcome.op = "get_campsites" /\ ~outcome.raised) =>
        requests = <<SessionGet, SessionPost>>

\* C11 (amended): a get_campsites call that completes has issued the session
\* GET and then the search POST, once each and in this order; the only other
\* request is one catalog GET before them, issued exactly when the facility
\* cache was unset on entry.
C11_GetThenPostAfterCatalog ==
    (outcome.op = "get_campsites" /\ ~outcome.raised) =>
        /\ SessionRequests = <<SessionGet, SessionPost>>
        /\ requests = (IF outcome.cache_before.is_none THEN <<CatalogGet>> ELSE <<>>)
                          \o <<SessionGet, SessionPost>>

\* C11 witness: a search entered with the cache unset completed with records
\* after the catalog GET (which filled the cache), the session GET and the POST.
C11_Witness ==
    /\ outcome.op = "get_campsites"
    /\ ~outcome.raised
    /\ outcome.cache_before.is_none
    /\ ~campground_cache.is_none
    /\ Len(outcome.ret) > 0
    /\ requests = <<CatalogGet, SessionGet, SessionPost>>

SessionSucceeds ==
    /\ ~outcome.get.raises /\ outcome.get.status_code = 200
    /\ ~outcome.post.raises /\ outcome.post.status_code = 200
NamedByPark ==
    /\ ~outcome.raised
    /\ outcome.ret = _parse_availability_html(outcome.post.text, outcome.campground_id,
                                              park_name, outcome.start_date,
                                              outcome.end_date)
    /\ \A k \in 1..Len(outcome.ret) : outcome.ret[k].facility_name = park_name
InList(list, campground_id) ==
    \E k \in 1..Len(list) : list[k].facility_id = campground_id

\* C14: a failing catalog fetch does not make a search fail.  A get_campsites
\* call entered with the cache unset whose catalog fetch failed (the cache is
\* still unset afterwards) goes on to the session GET, raises only an error of
\* the session or the search, and when both answer 200 returns the records of
\* the page named by the park name; a campground id that is not in the cached
\* list gives the park name as well.
C14_CatalogFailureFallsBack ==
    outcome.op = "get_campsites" =>
        /\ (outcome.cache_before.is_none /\ campground_cache.is_none) =>
              /\ requests[1] = CatalogGet
              /\ Len(requests) >= 2 /\ requests[2] = SessionGet
              /\ outcome.raised => outcome.error.stage \in {"session", "search"}
              /\ SessionSucceeds => (NamedByPark /\ Issued(SessionPost))
        /\ (/\ ~outcome.cache_before.is_none
            /\ ~InList(outcome.cache_before.list, outcome.campground_id)
            /\ SessionSucceeds) => NamedByPark

\* C14 witness: the catalog fetch failed, the cache is still unset, and the
\* search returned records named by the park name after all three requests.
C14_Witness ==
    /\ outcome.op = "get_campsites"
    /\ outcome.cache_before.is_none /\ campground_cache.is_none
    /\ ~outcome.raised
    /\ Len(outcome.ret) > 0
    /\ outcome.ret[1].facility_name = park_name
    /\ requests = <<CatalogGet, SessionGet, SessionPost>>

(***************************************************************************)
(* Properties of get_all_campsites (SpecSearch).                           *)
(***************************************************************************)
Searched == outcome.op = "get_all_campsites"

\* the records of the successful calls among the first k, in call order
RECURSIVE Gathered(_)
Gathered(k) ==
    IF k = 0 THEN <<>>
    ELSE Gathered(k - 1) \o (IF calls[k].raised THEN <<>> ELSE calls[k].ret)

\* C12: a failure of one (campground, search day) lookup is isolated.  When
\* get_all_campsites is over it has not raised, it has made one lookup for
\* every combination, campgrounds in the outer and days in the inner order,
\* whichever of them raised, and without a campsite filter its result is
\* the records of the successful lookups, concatenated in that order.
C12_FailuresIsolatedPerCombination ==
    Searched =>
        /\ ~outcome.raised
        /\ Len(calls) = Len(campground_ids) * Len(search_days)
        /\ \A k \in 1..Len(calls) :
              /\ calls[k].campground_id =
                    campground_ids[((k - 1) \div Len(search_days)) + 1]
              /\ calls[k].start_date = search_days[((k - 1) % Len(search_days)) + 1]
              /\ calls[k].end_date = calls[k].start_date + nights
        /\ Len(search.campsites) = 0 => outcome.ret = Gathered(Len(calls))

\* C12 witness: of four lookups the second raised; the first and a later one
\* gave records, and the result holds the records of both.
C12_Witness ==
    /\ Searched
    /\ Len(search.campsites) = 0
    /\ Len(calls) = 4
    /\ ~calls[1].raised /\ Len(calls[1].ret) > 0
    /\ calls[2].raised
    /\ ~calls[4].raised /\ Len(calls[4].ret) > 0
    /\ calls[1].campground_id # calls[4].campground_id
    /\ Len(outcome.ret) >= Len(calls[1].ret) + Len(calls[4].ret)

(***************************************************************************)
(* Properties of concurrent callers (SpecThreads).                         *)
(***************************************************************************)
AllDone == \A t \in Threads : pc[t] = "done"

\* C10 (as claimed): the cache write is write-once: a list once published is
\* never replaced by a later writer, and every value a reader has seen is the
\* unset cache or the final list.
C10_WriteOnce ==
    /\ [][~campground_cache.is_none => campground_cache' = campground_cache]_vars
    /\ [](AllDone => \A o \in observed : o.is_none \/ o = campground_cache)

====
